---- MODULE Spec2Model ----
(***************************************************************************)
(* fal-cli: the shared image generation core (core/image-generator.js)     *)
(* and the MCP server's generate_image / batch_generate tools.             *)
(*                                                                         *)
(* Money is counted in whole cents (0.05 USD = 5, 5.00 USD = 500).         *)
(* A falsy JavaScript value (undefined, null, '', 0) of a string or number *)
(* field is the empty string or 0.                                         *)
(***************************************************************************)
EXTENDS Integers, Sequences, FiniteSets, TLC

\* ------------------------------------------------------------ bounds
MaxTasks == 3
MaxBatch == 2
MaxItems == 2
MaxMcpTasks == 2
MaxImages == 3
MaxRewind == 2

\* ------------------------------------------------------------ state
VARIABLES
  tasks,      \* generateBatch: the task list
  batchSize,  \* options.batchSize
  useProgress,\* options.onProgress is supplied
  outDir,     \* options.outputDir is supplied
  pc,         \* generateBatch: "idle" | "loop" | "await" | "done" | "thrown"
  i,          \* generateBatch: the loop variable, the 0-based start of the window
  st,         \* per task: "pending" | "running" | "settled" | "rejected"
  promise,    \* per task: the value its batchPromises entry resolved to
  outcome,    \* per task: what the provider and the file system did for it
  results,    \* generateBatch: the results array
  progress,   \* the arguments of the successive onProgress calls
  doneOrder,  \* the tasks in the order their callbacks finished
  calls,      \* number of fal.subscribe calls issued
  written,    \* number of image files written
  single,     \* one direct generateSingleImage call: pc, task, toDisk, env, result
  hasKey,     \* MCP server: getApiKey finds a well-formed API key
  mcpPc,      \* MCP server: "idle" | "batch" | "single" (the handler's await)
  lastGate,   \* MCP server: the spending check of the latest request
  prevGate,   \* MCP server: the spending check of the request before it
  resp,       \* MCP server: the latest response
  costCall,   \* one calculateCost call: pc, tasks, models, totalCost, breakdown
  now,        \* Date.now()
  startTime,  \* per task: startTime of its generateSingleImage call
  paths,      \* the file paths written, in the order of the writes
  loadCall,   \* one loadModels call of core/model-manager.js
  validateCall, \* one validateModelConfig call
  cli,        \* cli.js: the flow of the process from its entry to its runs
  cliRun,     \* cli.js: one generateImages run
  cliCall,    \* cli.js: one generateSingleImage call
  store       \* secure-storage.js: the key file and the latest call

batchVars == <<tasks, batchSize, useProgress, outDir, pc, i, st, promise,
               outcome, results, progress, doneOrder, calls, written>>

mcpVars == <<hasKey, mcpPc, lastGate, prevGate, resp>>

sideVars == <<costCall, now, startTime, paths>>

moreVars == <<loadCall, validateCall, cli, cliRun, cliCall, store>>

vars == <<batchVars, single, mcpVars, sideVars, moreVars>>

\* ------------------------------------------------------------ helpers
SeqsUpTo(S, n) == UNION {[1..m -> S] : m \in 0..n}

RECURSIVE Concat(_)
Concat(ss) == IF ss = <<>> THEN <<>> ELSE Head(ss) \o Concat(Tail(ss))

\* ------------------------------------------------------------ provider responses
\* An element of an images array: an object (url / image_url, '' when the
\* property is missing or falsy), a bare string, or null.
Item(kind, url, image_url, s) ==
  [kind |-> kind, url |-> url, image_url |-> image_url, s |-> s]

\* A provider response. images.p: "absent" | "array" | "other" (truthy, not an
\* array); image.p: "absent" | "obj"; data.p / output.p: "absent" (no such
\* wrapper, or a wrapper without images) | "array" | "other" (images is truthy
\* and has no forEach).
Response(isNull, images, image, data, output) ==
  [isNull |-> isNull, images |-> images, image |-> image,
   data |-> data, output |-> output]

Field(p, items) == [p |-> p, items |-> items]
Single(p, url) == [p |-> p, url |-> url]

NoField == Field("absent", <<>>)
NoSingle == Single("absent", "")
NullResponse == Response(TRUE, NoField, NoSingle, NoField, NoField)

Thrown(msg) == [threw |-> TRUE, urls |-> <<>>, error |-> msg]
Urls(us) == [threw |-> FALSE, urls |-> us, error |-> ""]

\* result.images.forEach(...) of extractImageUrls: the URLs one element pushes.
TopItemUrls(img) ==
  IF img.url # "" THEN <<img.url>>
  ELSE IF img.image_url # "" THEN <<img.image_url>>
  ELSE IF img.kind = "str" THEN <<img.s>>
  ELSE <<>>

\* result.data.images.forEach / result.output.images.forEach: if (img.url) push.
NestedItemUrls(img) == IF img.url # "" THEN <<img.url>> ELSE <<>>

HasNull(items) == \E j \in DOMAIN items : items[j].kind = "null"

ExtractImageUrls(result) ==
  IF result.isNull THEN Thrown("TypeError")
  ELSE IF result.images.p = "array" THEN
    IF HasNull(result.images.items) THEN Thrown("TypeError")
    ELSE Urls(Concat([j \in DOMAIN result.images.items |->
                        TopItemUrls(result.images.items[j])]))
  ELSE IF result.image.p = "obj" /\ result.image.url # "" THEN
    Urls(<<result.image.url>>)
  ELSE IF result.data.p # "absent" THEN
    IF result.data.p = "other" \/ HasNull(result.data.items) THEN Thrown("TypeError")
    ELSE Urls(Concat([j \in DOMAIN result.data.items |->
                        NestedItemUrls(result.data.items[j])]))
  ELSE IF result.output.p # "absent" THEN
    IF result.output.p = "other" \/ HasNull(result.output.items) THEN Thrown("TypeError")
    ELSE Urls(Concat([j \in DOMAIN result.output.items |->
                        NestedItemUrls(result.output.items[j])]))
  ELSE Urls(<<>>)

\* ------------------------------------------------------------ persistence
\* What fetching and writing the n-th URL does: "ok", "neterr" (fetch rejects),
\* "http" (response.ok is false), "writeerr" (fs.writeFile rejects).
DlOutcomes == {"ok", "neterr", "http", "writeerr"}

AllOk == [j \in 1..MaxItems |-> "ok"]

\* A mutant: one try around the whole loop, the first failure ends the saving.
SaveImagesToDiskOneTry(imageUrls, dirOk, dl) ==
  IF ~dirOk THEN [threw |-> TRUE, error |-> "ensureDir", saved |-> <<>>]
  ELSE [threw |-> FALSE, error |-> "",
        saved |-> Concat([n \in DOMAIN imageUrls |->
                   IF \A h \in 1..n : dl[h] = "ok"
                   THEN <<[url |-> imageUrls[n], n |-> n]>>
                   ELSE <<>>])]

\* saveImagesToDisk: fs.ensureDir outside the loop's try, one try per URL.
SaveImagesToDisk(imageUrls, dirOk, dl) ==
  IF ~dirOk THEN [threw |-> TRUE, error |-> "ensureDir", saved |-> <<>>]
  ELSE [threw |-> FALSE, error |-> "",
        saved |-> Concat([n \in DOMAIN imageUrls |->
                   IF dl[n] = "ok" THEN <<[url |-> imageUrls[n], n |-> n]>>
                   ELSE <<>>])]

\* ------------------------------------------------------------ generateSingleImage
\* What fal.subscribe did: it resolved with a response or rejected with an Error.
Resolved(r) == [t |-> "resp", resp |-> r, msg |-> ""]
Rejected(msg) == [t |-> "err", resp |-> NullResponse, msg |-> msg]

\* Everything outside the function that decides one call.
Env(sub, dirOk, dl) == [sub |-> sub, dirOk |-> dirOk, dl |-> dl]

Success(task, images, saved) ==
  [threw |-> FALSE, success |-> TRUE, model |-> task.model, prompt |-> task.prompt,
   images |-> images, error |-> "", saved |-> saved]

Failure(task, msg) ==
  [threw |-> FALSE, success |-> FALSE, model |-> task.model, prompt |-> task.prompt,
   images |-> <<>>, error |-> msg, saved |-> <<>>]

Throws(task, msg) ==
  [threw |-> TRUE, success |-> FALSE, model |-> task.model, prompt |-> task.prompt,
   images |-> <<>>, error |-> msg, saved |-> <<>>]

\* A mutant: the response object is built without looking at images.length.
TryBodyNoEmptyCheck(task, env, toDisk) ==
  IF env.sub.t = "err" THEN Throws(task, env.sub.msg)
  ELSE LET ex == ExtractImageUrls(env.sub.resp) IN
    IF ex.threw THEN Throws(task, ex.error)
    ELSE IF toDisk THEN
      LET sv == SaveImagesToDisk(ex.urls, env.dirOk, env.dl) IN
      IF sv.threw THEN Throws(task, sv.error)
      ELSE Success(task, ex.urls, sv.saved)
    ELSE Success(task, ex.urls, <<>>)

\* The try block: it returns the response object or throws.
TryBody(task, env, toDisk) ==
  IF env.sub.t = "err" THEN Throws(task, env.sub.msg)
  ELSE LET ex == ExtractImageUrls(env.sub.resp) IN
    IF ex.threw THEN Throws(task, ex.error)
    ELSE IF Len(ex.urls) = 0 THEN Throws(task, "No images generated")
    ELSE IF toDisk THEN
      LET sv == SaveImagesToDisk(ex.urls, env.dirOk, env.dl) IN
      IF sv.threw THEN Throws(task, sv.error)
      ELSE Success(task, ex.urls, sv.saved)
    ELSE Success(task, ex.urls, <<>>)

\* A mutant: the try block ends before the response is processed.
GenerateSingleImageNarrowTry(task, env, toDisk) ==
  LET body == TryBody(task, env, toDisk) IN
  IF body.threw /\ env.sub.t = "err" THEN Failure(task, body.error) ELSE body

\* A mutant: no catch, whatever the try block throws leaves the function.
GenerateSingleImageNoCatch(task, env, toDisk) == TryBody(task, env, toDisk)

\* try { ... } catch (error) { return { success: false, error: error.message } }
GenerateSingleImage(task, env, toDisk) ==
  LET body == TryBody(task, env, toDisk) IN
  IF body.threw THEN Failure(task, body.error) ELSE body

\* ------------------------------------------------------------ generateBatch
Models == {"m1", "m2"}

Task(model, prompt, num_images) ==
  [model |-> model, prompt |-> prompt, num_images |-> num_images]

N == Len(tasks)

\* A provider response of one image, the common shape.
OneUrl == Response(FALSE, Field("array", <<Item("obj", "u1", "", "")>>),
                   NoSingle, NoField, NoField)

\* What may happen to one task of a batch: the provider rejects, or it answers
\* with one image, and then (with an output directory) the directory cannot be
\* made, the download fails, or the file is written.
BatchEnvs(toDisk) ==
  {Env(Rejected("rate limit"), TRUE, AllOk), Env(Resolved(OneUrl), TRUE, AllOk)}
  \cup (IF toDisk
        THEN {Env(Resolved(OneUrl), FALSE, AllOk),
              Env(Resolved(OneUrl), TRUE, [j \in 1..MaxItems |-> "http"])}
        ELSE {})

NoEnv == Env(Rejected(""), TRUE, AllOk)
NoResult == Failure(Task("", 0, 0), "pending")

\* A mutant: the window takes one task more than batchSize.
BatchWide(start) == {k \in 1..N : start < k /\ k <= start + batchSize + 1}

\* Array.prototype.slice's reading of an index: a negative one counts from
\* the end, and the result is kept within 0..length.
SliceIndex(x) ==
  IF x < 0 THEN (IF N + x < 0 THEN 0 ELSE N + x)
  ELSE (IF x > N THEN N ELSE x)

\* A mutant: the window takes the failed tasks of earlier windows again.
BatchRetry(start) ==
  {k \in 1..N : \/ (SliceIndex(start) < k /\ k <= SliceIndex(start + batchSize))
               \/ (st[k] = "settled" /\ ~promise[k].success)}

\* tasks.slice(i, i + batchSize), as 1-based task numbers.
Batch(start) ==
  {k \in 1..N : SliceIndex(start) < k /\ k <= SliceIndex(start + batchSize)}

\* A mutant: the loop goes on as soon as one task of the window has finished.
WindowSettledAny == \E k \in Batch(i) : st[k] = "settled"

\* A mutant: the loop waits for every task of the list, dispatched or not.
WindowSettledWholeList == \A k \in 1..N : st[k] = "settled"

\* await Promise.all(batchPromises) resolves: every callback has returned.
WindowSettled == \A k \in Batch(i) : st[k] = "settled"

\* A mutant: the results are collected in the order the tasks finish.
BatchResultsByCompletion ==
  LET mine == SelectSeq(doneOrder, LAMBDA k : k \in Batch(i)) IN
  [j \in DOMAIN mine |-> promise[mine[j]]]

\* Promise.all's value: the callbacks' results in the order of the batch.
BatchResults == [j \in 1..Cardinality(Batch(i)) |-> promise[SliceIndex(i) + j]]

\* completed: i + batchIndex + 1 (batchIndex is 0-based).
ProgressCompleted(start, batchIndex) == start + batchIndex + 1

\* A mutant: progress is reported for successful tasks only.
ReportsProgressOnSuccess(result) == useProgress /\ result.success

\* if (onProgress) { onProgress({...}) }
ReportsProgress(result) == useProgress

\* The callbacks of the window run up to their first await: each task's
\* fal.subscribe call is issued.
DispatchWindow ==
  /\ pc = "loop"
  /\ i < N
  /\ st' = [k \in 1..N |-> IF k \in Batch(i) THEN "running" ELSE st[k]]
  /\ calls' = calls + Cardinality(Batch(i))
  /\ pc' = "await"
  /\ UNCHANGED <<tasks, batchSize, useProgress, outDir, i, promise, outcome,
                 results, progress, doneOrder, written>>

\* The provider answers task k: generateSingleImage runs to its return, the
\* callback reports progress and returns the result.
TaskSettles(k) ==
  /\ pc = "await"
  /\ k \in 1..N
  /\ st[k] = "running"
  /\ \E env \in BatchEnvs(outDir) :
       LET result == GenerateSingleImage(tasks[k], env, outDir) IN
       /\ outcome' = [outcome EXCEPT ![k] = env]
       /\ written' = written + Len(result.saved)
       /\ IF result.threw
          THEN /\ st' = [st EXCEPT ![k] = "rejected"]
               /\ pc' = "thrown"
               /\ UNCHANGED <<promise, progress, doneOrder>>
          ELSE /\ st' = [st EXCEPT ![k] = "settled"]
               /\ promise' = [promise EXCEPT ![k] = result]
               /\ doneOrder' = Append(doneOrder, k)
               /\ progress' =
                    IF ReportsProgress(result)
                    THEN Append(progress,
                           [completed |-> ProgressCompleted(i, k - SliceIndex(i) - 1),
                            total |-> N, task |-> k, result |-> result])
                    ELSE progress
               /\ pc' = pc
  /\ UNCHANGED <<tasks, batchSize, useProgress, outDir, i, results, calls>>

\* i += batchSize
NextStart(start) == start + batchSize

\* results.push(...batchResults); i += batchSize. (The loop variable of a
\* run that counts downwards is followed down to -MaxRewind.)
WindowDone ==
  /\ pc = "await"
  /\ WindowSettled
  /\ NextStart(i) >= 0 - MaxRewind
  /\ results' = results \o BatchResults
  /\ i' = NextStart(i)
  /\ pc' = "loop"
  /\ UNCHANGED <<tasks, batchSize, useProgress, outDir, st, promise, outcome,
                 progress, doneOrder, calls, written>>

\* The loop ends: return results.
ReturnResults ==
  /\ pc = "loop"
  /\ ~(i < N)
  /\ pc' = "done"
  /\ UNCHANGED <<tasks, batchSize, useProgress, outDir, i, st, promise, outcome,
                 results, progress, doneOrder, calls, written>>

BatchCalled(ts, bs, op, od) ==
  /\ tasks = ts
  /\ batchSize = bs
  /\ useProgress = op
  /\ outDir = od
  /\ pc = "loop"
  /\ i = 0
  /\ st = [k \in 1..Len(ts) |-> "pending"]
  /\ promise = [k \in 1..Len(ts) |-> NoResult]
  /\ outcome = [k \in 1..Len(ts) |-> NoEnv]
  /\ results = <<>>
  /\ progress = <<>>
  /\ doneOrder = <<>>
  /\ calls = 0
  /\ written = 0

\* The same, as the effect of a call.
CallBatch(ts, bs, op, od) ==
  /\ tasks' = ts
  /\ batchSize' = bs
  /\ useProgress' = op
  /\ outDir' = od
  /\ pc' = "loop"
  /\ i' = 0
  /\ st' = [k \in 1..Len(ts) |-> "pending"]
  /\ promise' = [k \in 1..Len(ts) |-> NoResult]
  /\ outcome' = [k \in 1..Len(ts) |-> NoEnv]
  /\ results' = <<>>
  /\ progress' = <<>>
  /\ doneOrder' = <<>>
  /\ calls' = 0
  /\ written' = 0

\* Task lists of up to MaxTasks tasks; the prompt of a task is its number.
TaskLists ==
  UNION {{[k \in 1..n |-> Task(ms[k], k, 0)] : ms \in [1..n -> Models]} : n \in 0..MaxTasks}

\* No generateBatch call is under way.
BatchIdle ==
  /\ tasks = <<>>
  /\ batchSize = 1
  /\ useProgress = FALSE
  /\ outDir = FALSE
  /\ pc = "idle"
  /\ i = 0
  /\ st = <<>>
  /\ promise = <<>>
  /\ outcome = <<>>
  /\ results = <<>>
  /\ progress = <<>>
  /\ doneOrder = <<>>
  /\ calls = 0
  /\ written = 0

\* The call's state is dropped.
DropBatch ==
  /\ tasks' = <<>>
  /\ batchSize' = 1
  /\ useProgress' = FALSE
  /\ outDir' = FALSE
  /\ pc' = "idle"
  /\ i' = 0
  /\ st' = <<>>
  /\ promise' = <<>>
  /\ outcome' = <<>>
  /\ results' = <<>>
  /\ progress' = <<>>
  /\ doneOrder' = <<>>
  /\ calls' = 0
  /\ written' = 0

\* No direct generateSingleImage call is under way.
NoSingleCall ==
  [pc |-> "idle", task |-> Task("", 0, 0), toDisk |-> FALSE,
   env |-> NoEnv, result |-> NoResult]

NoGate == [seen |-> FALSE, cost |-> 0, confirm |-> FALSE, blocked |-> FALSE]
NoResp == [kind |-> "none", success |-> FALSE]

McpIdle ==
  /\ mcpPc = "idle"
  /\ lastGate = NoGate
  /\ prevGate = NoGate
  /\ resp = NoResp

\* No calculateCost call is under way.
NoCostCall ==
  [pc |-> "idle", tasks |-> <<>>, models |-> <<>>, totalCost |-> 0, breakdown |-> <<>>]

\* Nothing has been called.
Idle == [pc |-> "idle"]

\* The model manager, the CLI and the key store are not in use.
MoreIdle ==
  /\ loadCall = Idle
  /\ validateCall = Idle
  /\ cli = Idle
  /\ cliRun = Idle
  /\ cliCall = Idle
  /\ store = Idle

\* No cost is being calculated and no file name has been made.
SideIdle ==
  /\ costCall = NoCostCall
  /\ now = 1
  /\ startTime = <<>>
  /\ paths = <<>>
  /\ MoreIdle

InitBatch ==
  /\ \E ts \in TaskLists, bs \in 1..MaxBatch, op \in BOOLEAN, od \in BOOLEAN :
       BatchCalled(ts, bs, op, od)
  /\ single = NoSingleCall
  /\ hasKey = TRUE
  /\ McpIdle
  /\ SideIdle

BatchStep ==
  \/ DispatchWindow
  \/ \E k \in 1..MaxTasks : TaskSettles(k)
  \/ WindowDone
  \/ ReturnResults

NextBatch == BatchStep /\ UNCHANGED <<single, mcpVars, sideVars, moreVars>>

SpecBatch == InitBatch /\ [][NextBatch]_vars

\* The steps generateBatch takes by itself: the event loop runs a callback or
\* a continuation that is ready.
LoopStep ==
  (DispatchWindow \/ WindowDone \/ ReturnResults)
    /\ UNCHANGED <<single, mcpVars, sideVars, moreVars>>

\* The provider and the downloads of some running task come back.
ProviderStep ==
  (\E k \in 1..MaxTasks : TaskSettles(k))
    /\ UNCHANGED <<single, mcpVars, sideVars, moreVars>>

\* A run in which every provider call and every download eventually returns.
SpecBatchLive ==
  InitBatch /\ [][NextBatch]_vars /\ WF_vars(LoopStep) /\ WF_vars(ProviderStep)

\* A run in which the provider may leave a call unanswered for ever: only
\* the steps of generateBatch itself are sure to be taken. (The call
\* fal.subscribe(model, { input, logs, onQueueUpdate }) sets no timeout and
\* no timer runs beside it.)
SpecBatchHang == InitBatch /\ [][NextBatch]_vars /\ WF_vars(LoopStep)

\* generateBatch called with any batchSize, below 1 too: the function does
\* not look at the value before its loop.
InitBatchAny ==
  /\ \E ts \in TaskLists, bs \in (0 - 1)..MaxBatch, op \in BOOLEAN, od \in BOOLEAN :
       BatchCalled(ts, bs, op, od)
  /\ single = NoSingleCall
  /\ hasKey = TRUE
  /\ McpIdle
  /\ SideIdle

SpecBatchAny == InitBatchAny /\ [][NextBatch]_vars

\* ------------------------------------------------------------ file names
MaxFileTasks == 2
MaxClock == 2

\* The letters and digits of the model identifiers below.
AlphaNum == {"f", "a", "l", "m", "1", "2"}

\* Model identifiers, character by character: fal/m1, fal-m1, m2.
FileModels == {<<"f", "a", "l", "/", "m", "1">>, <<"f", "a", "l", "-", "m", "1">>,
               <<"m", "2">>}

\* model.replace(/[^a-zA-Z0-9]/g, '_')
Sanitize(model) == [j \in DOMAIN model |-> IF model[j] \in AlphaNum THEN model[j] ELSE "_"]

\* What Math.random().toString(36).substring(2, 8) may give.
Suffixes == {"r1", "r2"}

\* `${modelName}_${timestamp}_${randomSuffix}_${i + 1}.jpg`, part by part.
FileName(model, timestamp, randomSuffix, n) ==
  <<Sanitize(model), timestamp, randomSuffix, n, "jpg">>

\* taskOutputDir: path.join(outputDir, task.model.replace(/[^a-zA-Z0-9]/g, '_'))
TaskOutputDir(model) == <<"outputDir", Sanitize(model)>>

\* path.join(outputDir, filename)
FilePath(dir, filename) == <<dir, filename>>

\* The callbacks of a window start their generateSingleImage calls one after
\* the other: each reads startTime = Date.now(), the same millisecond or a
\* later one.
FilesDispatch ==
  /\ DispatchWindow
  /\ \E f \in [Batch(i) -> now..MaxClock] :
       /\ \A a, b \in Batch(i) : a < b => f[a] <= f[b]
       /\ startTime' = [k \in 1..N |-> IF k \in Batch(i) THEN f[k] ELSE startTime[k]]
       /\ now' = IF Batch(i) = {} THEN now
                 ELSE f[CHOOSE k \in Batch(i) : \A h \in Batch(i) : h <= k]
  /\ UNCHANGED <<paths, costCall, single, mcpVars>>

\* Task k settles; each file saveImagesToDisk wrote got the name made of the
\* task's model, its startTime, a fresh random suffix and the image's number.
FilesSettle(k) ==
  /\ TaskSettles(k)
  /\ \E sfx \in [1..Len(promise'[k].saved) -> Suffixes] :
       paths' = paths \o
         [j \in 1..Len(promise'[k].saved) |->
            FilePath(TaskOutputDir(tasks[k].model),
                     FileName(tasks[k].model, startTime[k], sfx[j],
                              promise'[k].saved[j].n))]
  /\ UNCHANGED <<now, startTime, costCall, single, mcpVars>>

\* Time passes.
Tick ==
  /\ now < MaxClock
  /\ now' = now + 1
  /\ UNCHANGED <<batchVars, single, mcpVars, costCall, startTime, paths>>

FileTaskLists ==
  UNION {{[k \in 1..n |-> Task(ms[k], k, 0)] : ms \in [1..n -> FileModels]} :
           n \in 0..MaxFileTasks}

\* generateBatch is called with an output directory.
InitFiles ==
  /\ \E ts \in FileTaskLists, bs \in 1..MaxBatch :
       /\ BatchCalled(ts, bs, FALSE, TRUE)
       /\ startTime = [k \in 1..Len(ts) |-> 0]
  /\ now = 1
  /\ paths = <<>>
  /\ costCall = NoCostCall
  /\ single = NoSingleCall
  /\ hasKey = TRUE
  /\ McpIdle
  /\ MoreIdle

NextFiles ==
  \/ FilesDispatch /\ UNCHANGED moreVars
  \/ (\E k \in 1..MaxFileTasks : FilesSettle(k)) /\ UNCHANGED moreVars
  \/ (WindowDone /\ UNCHANGED <<single, mcpVars, sideVars, moreVars>>)
  \/ (ReturnResults /\ UNCHANGED <<single, mcpVars, sideVars, moreVars>>)
  \/ Tick /\ UNCHANGED moreVars

SpecFiles == InitFiles /\ [][NextFiles]_vars

\* ------------------------------------------------------------ one generateSingleImage call
\* Elements of result.images.
TopItems ==
  {Item("obj", "u1", "", ""), Item("obj", "", "u2", ""), Item("obj", "", "", ""),
   Item("str", "", "", "u3"), Item("str", "", "", ""), Item("null", "", "", "")}

\* Elements of result.data.images and result.output.images.
NestedItems == {Item("obj", "u5", "", ""), Item("obj", "", "", ""), Item("null", "", "", "")}

Fields(items) ==
  {NoField, Field("other", <<>>)} \cup {Field("array", s) : s \in SeqsUpTo(items, MaxItems)}

\* Responses with an images array, alone or beside a lower-priority shape.
ArrayResponses ==
  {Response(FALSE, Field("array", s), im, da, ou) :
     s \in SeqsUpTo(TopItems, MaxItems),
     im \in {NoSingle, Single("obj", "u4")},
     da \in {NoField, Field("array", <<Item("obj", "u5", "", "")>>)},
     ou \in {NoField, Field("array", <<Item("obj", "u6", "", "")>>)}}

\* Responses without an images array.
OtherResponses ==
  {Response(FALSE, im0, im, da, ou) :
     im0 \in {NoField, Field("other", <<>>)},
     im \in {NoSingle, Single("obj", ""), Single("obj", "u4")},
     da \in Fields(NestedItems),
     ou \in Fields(NestedItems)}

Responses == {NullResponse} \cup ArrayResponses \cup OtherResponses

\* Responses whose images all have a URL, for the persistence step.
UrlResponses ==
  {Response(FALSE, Field("array", s), NoSingle, NoField, NoField) :
     s \in SeqsUpTo({Item("obj", "u1", "", ""), Item("str", "", "", "u3")}, MaxItems) \ {<<>>}}

ProviderErrors ==
  {"Unauthorized", "Rate limit exceeded", "Unprocessable Entity", "Request timed out"}

\* Every outcome of one call: a provider error or any response, the files
\* saved; and, with an output directory, a directory that cannot be made or
\* any mix of failed downloads.
SingleEnvs(toDisk) ==
  {Env(Rejected(m), TRUE, AllOk) : m \in ProviderErrors}
  \cup {Env(Resolved(r), TRUE, AllOk) : r \in Responses}
  \cup (IF toDisk
        THEN {Env(Resolved(r), FALSE, AllOk) : r \in UrlResponses}
             \cup {Env(Resolved(r), TRUE, dl) :
                     r \in UrlResponses, dl \in [1..MaxItems -> DlOutcomes]}
        ELSE {})

\* generateSingleImage is called and runs to its return.
SingleSettles ==
  /\ single.pc = "called"
  /\ \E env \in SingleEnvs(single.toDisk) :
       single' = [single EXCEPT !.pc = "returned", !.env = env,
                    !.result = GenerateSingleImage(single.task, env, single.toDisk)]
  /\ UNCHANGED <<batchVars, mcpVars>>

InitSingle ==
  /\ \E m \in Models, d \in BOOLEAN :
       single = [NoSingleCall EXCEPT !.pc = "called", !.task = Task(m, 1, 0),
                   !.toDisk = d]
  /\ BatchIdle
  /\ hasKey = TRUE
  /\ McpIdle
  /\ SideIdle

NextSingle == SingleSettles /\ UNCHANGED <<sideVars, moreVars>>

SpecSingle == InitSingle /\ [][NextSingle]_vars

\* ------------------------------------------------------------ MCP server: spending check
\* const SPENDING_LIMIT = 5.0, in cents.
SPENDING_LIMIT == 500

\* return 0.05 * numImages, in cents.
FallbackCostPerImage == 5

\* loadModels(): a model with a price and one whose costPerImage is missing or 0.
Catalog == <<[id |-> "m1", costPerImage |-> 250], [id |-> "m2", costPerImage |-> 0]>>

\* parameters.num_images || 1
NumImages(param) == IF param # 0 THEN param ELSE 1

CalculateGenerationCost(model, numImages) ==
  LET found == SelectSeq(Catalog, LAMBDA m : m.id = model) IN
  IF found = <<>> \/ found[1].costPerImage = 0
  THEN FallbackCostPerImage * numImages
  ELSE found[1].costPerImage * numImages

\* batch_generate: for (const task of tasks) totalEstimatedCost += taskCost
RECURSIVE TotalEstimatedCost(_)
TotalEstimatedCost(ts) ==
  IF ts = <<>> THEN 0
  ELSE CalculateGenerationCost(Head(ts).model, NumImages(Head(ts).num_images))
       + TotalEstimatedCost(Tail(ts))

\* A mutant: a cost equal to the limit needs confirmation too.
RequiresSpendingConfirmationAtLimit(estimatedCost) == estimatedCost >= SPENDING_LIMIT

RequiresSpendingConfirmation(estimatedCost) == estimatedCost > SPENDING_LIMIT

\* A mutant: the check is skipped.
SpendingBlockedNever(estimatedCost, confirm) == FALSE

\* A mutant: a confirmation given with the previous request still counts.
SpendingBlockedUnlessConfirmedBefore(estimatedCost, confirm) ==
  /\ RequiresSpendingConfirmation(estimatedCost)
  /\ ~confirm
  /\ ~(lastGate.seen /\ lastGate.confirm)

\* if (requiresSpendingConfirmation(cost) && !confirm_spending) throw ...
SpendingBlocked(estimatedCost, confirm) ==
  RequiresSpendingConfirmation(estimatedCost) /\ ~confirm

Gate(cost, confirm) ==
  [seen |-> TRUE, cost |-> cost, confirm |-> confirm,
   blocked |-> SpendingBlocked(cost, confirm)]

Resp(kind, success) == [kind |-> kind, success |-> success]

\* The generate_image tool up to its await of generateSingleImage: API key,
\* prompt validation, spending check, then the provider call is issued.
McpGenerateImage(model, numParam, promptOk, save, confirm) ==
  /\ mcpPc = "idle"
  /\ IF ~hasKey \/ ~promptOk
     THEN /\ resp' = Resp("error", FALSE)
          /\ UNCHANGED <<batchVars, single, hasKey, mcpPc, lastGate, prevGate>>
     ELSE LET gate == Gate(CalculateGenerationCost(model, NumImages(numParam)), confirm) IN
          /\ prevGate' = lastGate
          /\ lastGate' = gate
          /\ IF gate.blocked
             THEN /\ resp' = Resp("SPENDING_CONFIRMATION_REQUIRED", FALSE)
                  /\ UNCHANGED <<batchVars, single, hasKey, mcpPc>>
             ELSE /\ single' = [NoSingleCall EXCEPT !.pc = "called",
                                  !.task = Task(model, 1, numParam), !.toDisk = save]
                  /\ calls' = calls + 1
                  /\ mcpPc' = "single"
                  /\ resp' = Resp("pending", FALSE)
                  /\ UNCHANGED <<tasks, batchSize, useProgress, outDir, pc, i, st,
                                 promise, outcome, results, progress, doneOrder,
                                 written, hasKey>>

\* generate_image: generateSingleImage returns and the tool answers.
McpSingleReturns ==
  /\ mcpPc = "single"
  /\ single.pc = "called"
  /\ \E env \in BatchEnvs(single.toDisk) :
       LET result == GenerateSingleImage(single.task, env, single.toDisk) IN
       resp' = IF result.threw THEN Resp("error", FALSE)
               ELSE Resp("ok", result.success)
  /\ single' = NoSingleCall
  /\ calls' = 0
  /\ mcpPc' = "idle"
  /\ UNCHANGED <<tasks, batchSize, useProgress, outDir, pc, i, st, promise, outcome,
                 results, progress, doneOrder, written, hasKey, lastGate, prevGate>>

\* The batch_generate tool up to its await of generateBatch: API key, total
\* cost, spending check, then generateBatch is called with an output directory
\* and no progress callback.
McpBatchGenerate(ts, bs, confirm) ==
  /\ mcpPc = "idle"
  /\ IF ~hasKey
     THEN /\ resp' = Resp("error", FALSE)
          /\ UNCHANGED <<batchVars, single, hasKey, mcpPc, lastGate, prevGate>>
     ELSE LET gate == Gate(TotalEstimatedCost(ts), confirm) IN
          /\ prevGate' = lastGate
          /\ lastGate' = gate
          /\ IF gate.blocked
             THEN /\ resp' = Resp("SPENDING_CONFIRMATION_REQUIRED", FALSE)
                  /\ UNCHANGED <<batchVars, single, hasKey, mcpPc>>
             ELSE /\ CallBatch(ts, bs, FALSE, TRUE)
                  /\ mcpPc' = "batch"
                  /\ resp' = Resp("pending", FALSE)
                  /\ UNCHANGED <<single, hasKey>>

\* batch_generate: generateBatch returns and the tool answers.
McpBatchReturns ==
  /\ mcpPc = "batch"
  /\ pc \in {"done", "thrown"}
  /\ resp' = IF pc = "done" THEN Resp("ok", TRUE) ELSE Resp("error", FALSE)
  /\ DropBatch
  /\ mcpPc' = "idle"
  /\ UNCHANGED <<single, hasKey, lastGate, prevGate>>

\* The tasks a batch_generate request is made of: two images of a priced model
\* (the limit exactly) and a model without a price and without num_images.
McpTasks == {Task("m1", 1, 2), Task("m2", 2, 0)}

McpModels == {"m1", "m2", "mx"}

InitMcp ==
  /\ hasKey \in BOOLEAN
  /\ McpIdle
  /\ BatchIdle
  /\ single = NoSingleCall
  /\ SideIdle

McpStep ==
  \/ \E m \in McpModels, n \in 0..MaxImages, ok \in BOOLEAN, sv \in BOOLEAN, c \in BOOLEAN :
       McpGenerateImage(m, n, ok, sv, c)
  \/ McpSingleReturns
  \/ \E ts \in SeqsUpTo(McpTasks, MaxMcpTasks), bs \in 1..MaxBatch, c \in BOOLEAN :
       McpBatchGenerate(ts, bs, c)
  \/ McpBatchReturns
  \/ (BatchStep /\ UNCHANGED <<single, mcpVars>>)

NextMcp == McpStep /\ UNCHANGED <<sideVars, moreVars>>

SpecMcp == InitMcp /\ [][NextMcp]_vars

\* ------------------------------------------------------------ calculateCost
\* A task as calculateCost reads it: model and imageCount (0 when missing).
CostTask(model, imageCount) == [model |-> model, imageCount |-> imageCount]

\* A catalog entry as calculateCost reads it (costPerImage 0 when missing).
CostModel(id, costPerImage) == [id |-> id, costPerImage |-> costPerImage]

\* models.find(...) found nothing: undefined.
NoModel == CostModel("", 0)

\* models.find(m => m.id === task.model): the first entry with that id.
Find(models, id) ==
  IF \E j \in DOMAIN models : models[j].id = id
  THEN models[CHOOSE j \in DOMAIN models :
                /\ models[j].id = id
                /\ \A h \in 1..(j - 1) : models[h].id # id]
  ELSE NoModel

\* task.imageCount || 1
ImageCount(task) == IF task.imageCount = 0 THEN 1 ELSE task.imageCount

\* if (model && model.costPerImage)
Charged(task, models) ==
  Find(models, task.model) # NoModel /\ Find(models, task.model).costPerImage # 0

\* const cost = model.costPerImage * (task.imageCount || 1), for a charged task.
TaskCost(task, models) ==
  IF Charged(task, models)
  THEN Find(models, task.model).costPerImage * ImageCount(task)
  ELSE 0

RECURSIVE SumCost(_, _)
SumCost(ts, models) ==
  IF ts = <<>> THEN 0 ELSE TaskCost(Head(ts), models) + SumCost(Tail(ts), models)

RECURSIVE SumCount(_)
SumCount(ts) == IF ts = <<>> THEN 0 ELSE ImageCount(Head(ts)) + SumCount(Tail(ts))

\* A mutant: totalCost = cost instead of totalCost += cost.
CalculateCostAssigns(ts, models) ==
  LET charged == SelectSeq(ts, LAMBDA t : Charged(t, models))
      of(m) == SelectSeq(charged, LAMBDA t : t.model = m)
  IN [totalCost |-> IF charged = <<>> THEN 0
                    ELSE TaskCost(charged[Len(charged)], models),
      breakdown |-> [m \in {charged[j].model : j \in DOMAIN charged} |->
                       [imageCount |-> SumCount(of(m)),
                        costPerImage |-> Find(models, m).costPerImage,
                        totalCost |-> SumCost(of(m), models)]]]

\* calculateCost: the total and the breakdown by model of the charged tasks.
CalculateCost(ts, models) ==
  LET charged == SelectSeq(ts, LAMBDA t : Charged(t, models))
      of(m) == SelectSeq(charged, LAMBDA t : t.model = m)
  IN [totalCost |-> SumCost(ts, models),
      breakdown |-> [m \in {charged[j].model : j \in DOMAIN charged} |->
                       [imageCount |-> SumCount(of(m)),
                        costPerImage |-> Find(models, m).costPerImage,
                        totalCost |-> SumCost(of(m), models)]]]

\* calculateCost(tasks, models) runs to its return (called directly or by the
\* MCP calculate_cost tool with the loaded catalog).
CalculateCostReturns ==
  /\ costCall.pc = "called"
  /\ costCall' = [costCall EXCEPT !.pc = "returned",
                 !.totalCost = CalculateCost(costCall.tasks, costCall.models).totalCost,
                 !.breakdown = CalculateCost(costCall.tasks, costCall.models).breakdown]
  /\ UNCHANGED <<batchVars, single, mcpVars, now, startTime, paths>>

MaxCostTasks == 2
MaxCatalog == 2
MaxCount == 2

\* Prices in cents: none, 250, and a negative one.
Prices == {0, 250, 0 - 4}

\* Tasks of a listed model or an unlisted one, imageCount missing, positive or
\* negative.
CostTasks == {CostTask(m, c) : m \in {"m1", "mx"}, c \in (0 - 1)..MaxCount}

Catalogs == SeqsUpTo({CostModel(m, c) : m \in {"m1", "m2"}, c \in Prices}, MaxCatalog)

InitCost ==
  /\ \E ts \in SeqsUpTo(CostTasks, MaxCostTasks), ms \in Catalogs :
       costCall = [NoCostCall EXCEPT !.pc = "called", !.tasks = ts, !.models = ms]
  /\ now = 1
  /\ startTime = <<>>
  /\ paths = <<>>
  /\ BatchIdle
  /\ single = NoSingleCall
  /\ hasKey = TRUE
  /\ McpIdle
  /\ MoreIdle

NextCost == CalculateCostReturns /\ UNCHANGED moreVars

SpecCost == InitCost /\ [][NextCost]_vars

\* ------------------------------------------------------------ model-manager.js: loadModels
MaxFiles == 3

\* An entry of the models directory. kind: "ok" (a JSON object with a name),
\* "noname" (a JSON object without a name), "null" (the JSON text null),
\* "badjson" (fs.readJson rejects), "statfail" (fs.stat rejects), "other" (not
\* a .json file). name: the name's place in the collation order.
DirEntry(kind, name) == [kind |-> kind, name |-> name]

\* The place of the string 'undefined' in the collation order, between the
\* names 1 and 3: x.localeCompare(undefined) compares x with 'undefined'.
UndefinedName == 2

DirEntries ==
  {DirEntry("ok", 1), DirEntry("ok", 3)}
  \cup {DirEntry(kd, 0) : kd \in {"noname", "null", "badjson", "statfail", "other"}}

\* files.filter(file => file.endsWith('.json'))
ModelFiles(files) == SelectSeq(files, LAMBDA f : f.kind # "other")

\* The body of the per-file try: readJson, the two assignments, stat and push
\* all succeed.
Pushed(file) == file.kind \in {"ok", "noname"}

\* models after the loop: the files that were pushed, in readdir order.
LoadedModels(files) == SelectSeq(ModelFiles(files), Pushed)

\* The number of warnings the loop printed.
Warnings(files) == Len(ModelFiles(files)) - Len(LoadedModels(files))

\* The name as localeCompare's argument sees it.
NameKey(m) == IF m.kind = "noname" THEN UndefinedName ELSE m.name

Insert(m, sorted) ==
  LET pos == Cardinality({j \in DOMAIN sorted : NameKey(sorted[j]) <= NameKey(m)}) IN
  SubSeq(sorted, 1, pos) \o <<m>> \o SubSeq(sorted, pos + 1, Len(sorted))

\* models.sort((a, b) => a.name.localeCompare(b.name)) when no call throws.
RECURSIVE SortByName(_)
SortByName(ms) ==
  IF ms = <<>> THEN <<>>
  ELSE Insert(ms[Len(ms)], SortByName(SubSeq(ms, 1, Len(ms) - 1)))

\* The comparator throws a TypeError when its first argument has no name.
\* With fewer than two models it is not called. Which elements are passed
\* first is the engine's choice: aSide is the set of their positions.
SortThrows(ms, aSide) ==
  Len(ms) >= 2 /\ \E j \in aSide : ms[j].kind = "noname"

\* loadModels: the outer catch turns a readdir failure and a throwing sort
\* into the return value [].
LoadModels(dirOk, files, aSide) ==
  IF ~dirOk THEN [threw |-> FALSE, models |-> <<>>, warnings |-> 0]
  ELSE IF SortThrows(LoadedModels(files), aSide)
  THEN [threw |-> FALSE, models |-> <<>>, warnings |-> Warnings(files)]
  ELSE [threw |-> FALSE, models |-> SortByName(LoadedModels(files)),
        warnings |-> Warnings(files)]

\* loadModels() runs to its return.
LoadModelsReturns ==
  /\ loadCall.pc = "called"
  /\ \E aSide \in {a \in SUBSET (1..Len(LoadedModels(loadCall.files))) :
                     a # {} \/ Len(LoadedModels(loadCall.files)) < 2} :
       loadCall' = [loadCall EXCEPT !.pc = "returned",
                      !.result = LoadModels(loadCall.dirOk, loadCall.files, aSide)]
  /\ UNCHANGED <<batchVars, single, mcpVars, sideVars, validateCall, cli, cliRun, cliCall, store>>

InitLoad ==
  /\ \E ok \in BOOLEAN, fs \in SeqsUpTo(DirEntries, MaxFiles) :
       loadCall = [pc |-> "called", dirOk |-> ok, files |-> fs,
                   result |-> [threw |-> FALSE, models |-> <<>>, warnings |-> 0]]
  /\ validateCall = Idle
  /\ cli = Idle
  /\ cliRun = Idle
  /\ cliCall = Idle
  /\ store = Idle
  /\ costCall = NoCostCall
  /\ now = 1
  /\ startTime = <<>>
  /\ paths = <<>>
  /\ BatchIdle
  /\ single = NoSingleCall
  /\ hasKey = TRUE
  /\ McpIdle

NextLoad == LoadModelsReturns

SpecLoad == InitLoad /\ [][NextLoad]_vars

\* ------------------------------------------------------------ model-manager.js: validateModelConfig
MaxParams == 1

\* costPerImage: kind "missing" | "number" | "string" (a non-empty string that
\* is not a number), and the number.
Cost(kind, value) == [kind |-> kind, value |-> value]

\* A parameter definition: type ('' when missing), min and max (present or not).
Param(type, hasMin, min, hasMax, max) ==
  [type |-> type, hasMin |-> hasMin, min |-> min, hasMax |-> hasMax, max |-> max]

\* A model configuration: id is '' (missing), 'm' or 'p/m'; name and type are
\* TRUE when the field is truthy.
ModelConfig(id, name, type, costPerImage, parameters) ==
  [id |-> id, name |-> name, type |-> type, costPerImage |-> costPerImage,
   parameters |-> parameters]

\* modelConfig.costPerImage is truthy.
CostTruthy(c) == c.kind = "string" \/ (c.kind = "number" /\ c.value # 0)

\* required.forEach(field => { if (!modelConfig[field]) errors.push(...) })
RequiredErrors(cfg) ==
  (IF cfg.id # "" THEN <<>> ELSE <<"Missing required field: id">>)
  \o (IF cfg.name THEN <<>> ELSE <<"Missing required field: name">>)
  \o (IF cfg.type THEN <<>> ELSE <<"Missing required field: type">>)
  \o (IF CostTruthy(cfg.costPerImage) THEN <<>>
      ELSE <<"Missing required field: costPerImage">>)

\* The two checks of costPerImage.
CostErrors(cfg) ==
  (IF CostTruthy(cfg.costPerImage) /\ cfg.costPerImage.kind # "number"
   THEN <<"costPerImage must be a number">> ELSE <<>>)
  \o (IF CostTruthy(cfg.costPerImage) /\ cfg.costPerImage.kind = "number"
         /\ cfg.costPerImage.value < 0
      THEN <<"costPerImage cannot be negative">> ELSE <<>>)

\* if (param.type === 'number' && param.min !== undefined && param.max !== undefined)
\*   if (param.min >= param.max) errors.push(...)
ParamErrors(param) ==
  IF param.type = "number" /\ param.hasMin /\ param.hasMax /\ param.min >= param.max
  THEN <<"min value must be less than max value">> ELSE <<>>

\* The warnings: an id without '/', a parameter without a type.
ConfigWarnings(cfg) ==
  (IF cfg.id = "m"
   THEN <<"Model ID should follow \"provider/model-name\" format">> ELSE <<>>)
  \o Concat([j \in DOMAIN cfg.parameters |->
               IF cfg.parameters[j].type = ""
               THEN <<"Parameter is missing type definition">> ELSE <<>>])

\* validateModelConfig: valid is errors.length === 0.
ValidateModelConfig(cfg) ==
  LET errors == RequiredErrors(cfg) \o CostErrors(cfg)
                \o Concat([j \in DOMAIN cfg.parameters |-> ParamErrors(cfg.parameters[j])])
  IN [valid |-> errors = <<>>, errors |-> errors, warnings |-> ConfigWarnings(cfg)]

ValidateReturns ==
  /\ validateCall.pc = "called"
  /\ validateCall' = [validateCall EXCEPT !.pc = "returned",
                         !.result = ValidateModelConfig(validateCall.config)]
  /\ UNCHANGED <<batchVars, single, mcpVars, sideVars, loadCall, cli, cliRun, cliCall, store>>

Costs == {Cost("missing", 0), Cost("string", 0)}
         \cup {Cost("number", v) : v \in {0 - 1, 0, 3}}

Params ==
  {Param(t, hmin, IF hmin THEN mn ELSE 0, hmax, IF hmax THEN mx ELSE 0) :
     t \in {"number", "integer", "float", "string", ""},
     hmin \in BOOLEAN, mn \in 1..2, hmax \in BOOLEAN, mx \in 1..2}

ModelConfigs ==
  {ModelConfig(a, b, c, d, ps) :
     a \in {"", "m", "p/m"}, b \in BOOLEAN, c \in BOOLEAN, d \in Costs,
     ps \in SeqsUpTo(Params, MaxParams)}

InitValidate ==
  /\ \E cfg \in ModelConfigs :
       validateCall = [pc |-> "called", config |-> cfg,
                       result |-> [valid |-> FALSE, errors |-> <<>>, warnings |-> <<>>]]
  /\ loadCall = Idle
  /\ cli = Idle
  /\ cliRun = Idle
  /\ cliCall = Idle
  /\ store = Idle
  /\ costCall = NoCostCall
  /\ now = 1
  /\ startTime = <<>>
  /\ paths = <<>>
  /\ BatchIdle
  /\ single = NoSingleCall
  /\ hasKey = TRUE
  /\ McpIdle

NextValidate == ValidateReturns

SpecValidate == InitValidate /\ [][NextValidate]_vars

\* ------------------------------------------------------------ cli.js: the flow to a generation run
MaxRuns == 2

\* What a run depends on: the selected model, the prompt and the parameters
\* with the image count (numbered choices).
Settings(model, prompt, params) == [model |-> model, prompt |-> prompt, params |-> params]

SettingsSet == {Settings(m, pr, pa) : m \in Models, pr \in 1..2, pa \in 1..2}

\* The process has started; nothing is chosen, shown or run.
CliStarted ==
  [pc |-> "start", entry |-> "", settings |-> Settings("", 0, 0), confirmed |-> {},
   runs |-> 0, lastRun |-> [settings |-> Settings("", 0, 0), estimated |-> FALSE]]

\* runCLI, steps 1 to 10: authentication and the choices of the wizard.
RunCLI(sel) ==
  /\ cli.pc = "start"
  /\ cli' = [cli EXCEPT !.pc = "estimate", !.entry = "wizard", !.settings = sel]

\* runDirectGeneration up to its last line: the settings come from the
\* command's options and the model's defaults.
RunDirectGeneration(sel) ==
  /\ cli.pc = "start"
  /\ cli' = [cli EXCEPT !.pc = "generate", !.entry = "direct", !.settings = sel]

\* showCostEstimate: the estimate for the current settings is printed and the
\* user confirms, or declines and the process exits.
ShowCostEstimate(confirmed) ==
  /\ cli.pc = "estimate"
  /\ cli' = IF confirmed
             THEN [cli EXCEPT !.pc = "generate",
                     !.confirmed = cli.confirmed \cup {cli.settings}]
             ELSE [cli EXCEPT !.pc = "exit"]

\* generateImages is called: a run with the current settings. The wizard goes
\* on to the menu, the menu loops, the direct command ends.
GenerateImagesCalled ==
  /\ cli.pc = "generate"
  /\ cli.runs < MaxRuns
  /\ cli' = [cli EXCEPT !.pc = IF cli.entry = "direct" THEN "exit" ELSE "menu",
                !.runs = cli.runs + 1,
                !.lastRun = [settings |-> cli.settings,
                             estimated |-> cli.settings \in cli.confirmed]]

\* showPostGenerationMenu: the action chosen, up to its generateImages call.
MenuAction(action, sel) ==
  /\ cli.pc = "menu"
  /\ cli' =
       CASE action = "generate_more" -> [cli EXCEPT !.pc = "generate"]
         [] action = "new_prompt" ->
              [cli EXCEPT !.pc = "generate", !.settings.prompt = sel.prompt]
         [] action = "change_model" ->
              [cli EXCEPT !.pc = "generate", !.settings.model = sel.model,
                 !.settings.params = sel.params]
         [] action = "settings" ->
              [cli EXCEPT !.pc = "estimate", !.settings.params = sel.params]
         [] action = "exit" -> [cli EXCEPT !.pc = "exit"]
         [] OTHER -> cli

MenuActions ==
  {"generate_more", "new_prompt", "change_model", "settings", "list_models",
   "config", "exit"}

InitCli ==
  /\ cli = CliStarted
  /\ loadCall = Idle
  /\ validateCall = Idle
  /\ cliRun = Idle
  /\ cliCall = Idle
  /\ store = Idle
  /\ costCall = NoCostCall
  /\ now = 1
  /\ startTime = <<>>
  /\ paths = <<>>
  /\ BatchIdle
  /\ single = NoSingleCall
  /\ hasKey = TRUE
  /\ McpIdle

\* Everything but the variable cli.
notCli == <<batchVars, single, mcpVars, sideVars, loadCall, validateCall, cliRun,
            cliCall, store>>

NextCli ==
  \/ (\E sel \in SettingsSet : RunCLI(sel)) /\ UNCHANGED notCli
  \/ (\E sel \in SettingsSet : RunDirectGeneration(sel)) /\ UNCHANGED notCli
  \/ (\E c \in BOOLEAN : ShowCostEstimate(c)) /\ UNCHANGED notCli
  \/ GenerateImagesCalled /\ UNCHANGED notCli
  \/ (\E a \in MenuActions, sel \in SettingsSet : MenuAction(a, sel))
       /\ UNCHANGED notCli

SpecCli == InitCli /\ [][NextCli]_vars

\* ------------------------------------------------------------ CLI generateImages
MaxCliTasks == 2
MaxCliImages == 1

\* The key properties of the model descriptors getAllModels returns, in
\* catalogue order; nothing makes the descriptor files carry different keys.
CliCatalog == <<"k1", "k2", "k1">>

RECURSIVE Ascending(_)
\* The members of a set of positions in ascending order.
Ascending(S) ==
  IF S = {} THEN <<>>
  ELSE LET m == CHOOSE x \in S : \A y \in S : x <= y
       IN <<m>> \o Ascending(S \ {m})

\* An entry of generateImages' tasks array; model is the position of the
\* model in the catalogue, key its key property.
CliTask(model, key, promptIndex, imageIndex) ==
  [model |-> model, key |-> key, promptIndex |-> promptIndex,
   imageIndex |-> imageIndex]

\* The nested loops that build tasks: for each prompt (one prompt with
\* promptIndex 1 outside batch mode), for each selected model, for each
\* imageIndex from 1 to imagesPerModel.
CliTaskList(selectedModels, prompts, imagesPerModel) ==
  Concat([p \in 1..prompts |->
    Concat([m \in 1..Len(selectedModels) |->
      [q \in 1..imagesPerModel |->
         CliTask(selectedModels[m], CliCatalog[selectedModels[m]], p, q)]])])

\* A mutant: the name leaves out the iteration index.
CliFileNameNoIter(task, n, timestamp, randomSuffix) ==
  <<task.key, "_prompt", task.promptIndex, "_img", n, "_", timestamp, "_",
    randomSuffix, ".png">>

\* `${model.key}_prompt${promptIndex}_iter${imageIndex}_img${i + 1}_${timestamp}_${randomSuffix}.png`,
\* part by part. The fixed words between the parts make the string determine
\* the parts, so two names are the same string exactly when their parts are
\* the same.
CliFileName(task, n, timestamp, randomSuffix) ==
  <<task.key, "_prompt", task.promptIndex, "_iter", task.imageIndex, "_img", n,
    "_", timestamp, "_", randomSuffix, ".png">>

\* A mutant: only the try branch counts.
CompletedOnSuccess(completedTasks, ok) ==
  IF ok THEN completedTasks + 1 ELSE completedTasks

\* What the counter becomes when the callback of a task finishes: both the
\* try branch and the catch branch run completedTasks++.
Completed(completedTasks, ok) == completedTasks + 1

\* tasks.slice(i, i + batchSize), as the 1-based positions it holds.
CliBatch ==
  {k \in 1..Len(cliRun.tasks) : cliRun.i < k /\ k <= cliRun.i + cliRun.batchSize}

\* generateImages has built its task list and is about to enter the loop.
CliRunCalled(ts, bs) ==
  [pc |-> "loop", tasks |-> ts, batchSize |-> bs, i |-> 0,
   st |-> [k \in 1..Len(ts) |-> "pending"],
   timestamp |-> [k \in 1..Len(ts) |-> 0],
   completedTasks |-> 0, printed |-> <<>>, saved |-> {}, results |-> <<>>]

\* The loop test holds: batch.map starts generateSingleImage for every task
\* of the window in turn; each call reads timestamp = Date.now() before its
\* first await. The clock is read nowhere else, so the time that passed since
\* the last window shows here: the window starts at the millisecond t, the
\* one of the last window or a later one.
CliDispatch ==
  /\ cliRun.pc = "loop"
  /\ cliRun.i < Len(cliRun.tasks)
  /\ \E t \in now..MaxClock :
       /\ now' = t
       /\ cliRun' = [cliRun EXCEPT !.pc = "await",
                      !.st = [k \in DOMAIN cliRun.st |->
                                IF k \in CliBatch THEN "running" ELSE cliRun.st[k]],
                      !.timestamp = [k \in DOMAIN cliRun.timestamp |->
                                       IF k \in CliBatch THEN t
                                       ELSE cliRun.timestamp[k]]]

\* The callback of task k finishes. generateSingleImage wrote the images at
\* the positions idx of the response (an element without URL is skipped, a
\* failed download throws after the files before it were written, so a call
\* that threw left the last position unwritten) and then returned (ok) or
\* threw; either way the counter goes up and is printed.
\* randomSuffix is what Math.random() gave the call; it shows in the names of
\* the files only.
CliSettle(k, idx, ok, randomSuffix) ==
  /\ cliRun.pc = "await"
  /\ k \in DOMAIN cliRun.st
  /\ cliRun.st[k] = "running"
  /\ ok \/ \A n \in idx : n < MaxCliImages
  /\ cliRun' = [cliRun EXCEPT
       !.st[k] = IF ok THEN "returned" ELSE "failed",
       !.completedTasks = Completed(cliRun.completedTasks, ok),
       !.printed = Append(cliRun.printed, Completed(cliRun.completedTasks, ok)),
       !.saved = cliRun.saved \cup
                 {[task |-> k, n |-> n,
                   name |-> CliFileName(cliRun.tasks[k], n, cliRun.timestamp[k],
                                        randomSuffix)] : n \in idx}]
  /\ UNCHANGED now

\* Promise.all resolves: the window's results that are not null are pushed in
\* task order and the loop variable advances.
CliWindowDone ==
  /\ cliRun.pc = "await"
  /\ \A k \in CliBatch : cliRun.st[k] \in {"returned", "failed"}
  /\ cliRun' = [cliRun EXCEPT !.pc = "loop",
                  !.i = cliRun.i + cliRun.batchSize,
                  !.results = cliRun.results \o
                     SelectSeq([j \in 1..Cardinality(CliBatch) |-> cliRun.i + j],
                               LAMBDA k : cliRun.st[k] = "returned")]
  /\ UNCHANGED now

\* The loop test fails: generateImages goes on to its summary.
CliLoopEnds ==
  /\ cliRun.pc = "loop"
  /\ cliRun.i >= Len(cliRun.tasks)
  /\ cliRun' = [cliRun EXCEPT !.pc = "done"]
  /\ UNCHANGED now

\* The selections a run can start from: the models ticked in the checkbox
\* list (at least one, in catalogue order), one prompt or the prompts of the
\* batch file, imagesPerModel >= 1, and a batch size the prompt of
\* selectBatchSize accepts.
CliTaskLists ==
  {ts \in {CliTaskList(Ascending(modelIndices), prompts, ipm) :
             modelIndices \in SUBSET (DOMAIN CliCatalog) \ {{}},
             prompts \in 1..MaxCliTasks, ipm \in 1..MaxCliTasks} :
     Len(ts) <= MaxCliTasks}

InitCliRun ==
  /\ \E ts \in CliTaskLists, bs \in 1..MaxBatch : cliRun = CliRunCalled(ts, bs)
  /\ now = 1
  /\ cli = Idle
  /\ loadCall = Idle
  /\ validateCall = Idle
  /\ cliCall = Idle
  /\ store = Idle
  /\ costCall = NoCostCall
  /\ startTime = <<>>
  /\ paths = <<>>
  /\ BatchIdle
  /\ single = NoSingleCall
  /\ hasKey = TRUE
  /\ McpIdle

\* Everything but the variables cliRun and now.
notCliRun == <<batchVars, single, mcpVars, costCall, startTime, paths, loadCall,
               validateCall, cli, cliCall, store>>

NextCliRun ==
  \/ CliDispatch /\ UNCHANGED notCliRun
  \/ (\E k \in 1..MaxCliTasks, idx \in SUBSET (1..MaxCliImages), ok \in BOOLEAN,
          randomSuffix \in Suffixes :
        CliSettle(k, idx, ok, randomSuffix)) /\ UNCHANGED notCliRun
  \/ CliWindowDone /\ UNCHANGED notCliRun
  \/ CliLoopEnds /\ UNCHANGED notCliRun

SpecCliRun == InitCliRun /\ [][NextCliRun]_vars

\* ------------------------------------------------------------ CLI generateSingleImage
\* The chain of tests on the response: data.images, images, image,
\* data.image, output.images. The responses modelled carry no data.image, so
\* that test fails for all of them. A null response makes result.data throw.
CliImages(result) ==
  IF result.isNull THEN [threw |-> TRUE, items |-> <<>>, error |-> "TypeError"]
  ELSE IF result.data.p = "array" THEN
    [threw |-> FALSE, items |-> result.data.items, error |-> ""]
  ELSE IF result.images.p = "array" THEN
    [threw |-> FALSE, items |-> result.images.items, error |-> ""]
  ELSE IF result.image.p = "obj" THEN
    [threw |-> FALSE, items |-> <<Item("obj", result.image.url, "", "")>>,
     error |-> ""]
  ELSE IF result.output.p = "array" THEN
    [threw |-> FALSE, items |-> result.output.items, error |-> ""]
  ELSE IF result.output.p = "other" THEN
    \* images is truthy and no array: the loop over images.length finds no
    \* element with a URL.
    [threw |-> FALSE, items |-> <<>>, error |-> ""]
  ELSE [threw |-> TRUE, items |-> <<>>, error |-> "Unexpected API response format"]

\* imageUrl = image.url || image.image_url: '' when both are missing, as they
\* are on a bare string.
CliImageUrl(image) ==
  IF image.kind # "obj" THEN ""
  ELSE IF image.url # "" THEN image.url
  ELSE image.image_url

\* The URLs of the elements up to position n that have one.
CliUrlsUpTo(items, n) ==
  SelectSeq([j \in 1..n |-> CliImageUrl(items[j])], LAMBDA u : u # "")

CliThrows(msg) == [success |-> FALSE, falUrls |-> <<>>, error |-> msg]

\* The loop over the images: a null element throws on image.url; an element
\* without URL is skipped; every URL is pushed to falUrls and then fetched and
\* written, and a failed fetch, a response that is not ok or a failed write
\* throws. dl[n] is what fetching and writing the n-th URL does.
CliSaveLoop(items, dl) ==
  LET stops(j) ==
        \/ items[j].kind = "null"
        \/ /\ CliImageUrl(items[j]) # ""
           /\ dl[Len(CliUrlsUpTo(items, j))] # "ok"
  IN IF \E j \in DOMAIN items : stops(j)
     THEN LET j == CHOOSE h \in DOMAIN items :
                     stops(h) /\ \A g \in 1..(h - 1) : ~stops(g)
          IN CliThrows(IF items[j].kind = "null" THEN "TypeError"
                        ELSE "Failed to download image")
     ELSE [success |-> TRUE, falUrls |-> CliUrlsUpTo(items, Len(items)),
           error |-> ""]

\* The CLI's generateSingleImage from fal.subscribe on: it returns a result
\* with success true or throws (success false here).
CliGenerateSingleImage(env) ==
  IF env.sub.t = "err" THEN CliThrows(env.sub.msg)
  ELSE LET im == CliImages(env.sub.resp) IN
    IF im.threw THEN CliThrows(im.error)
    ELSE CliSaveLoop(im.items, env.dl)

\* The call runs to its return or its throw.
CliCallSettles ==
  /\ cliCall.pc = "called"
  /\ \E env \in SingleEnvs(TRUE) :
       cliCall' = [pc |-> "returned", task |-> cliCall.task, env |-> env,
                   result |-> CliGenerateSingleImage(env)]

InitCliCall ==
  /\ \E m \in Models :
       cliCall = [pc |-> "called", task |-> Task(m, 1, 0), env |-> NoEnv,
                  result |-> CliThrows("")]
  /\ cli = Idle
  /\ cliRun = Idle
  /\ loadCall = Idle
  /\ validateCall = Idle
  /\ store = Idle
  /\ costCall = NoCostCall
  /\ now = 1
  /\ startTime = <<>>
  /\ paths = <<>>
  /\ BatchIdle
  /\ single = NoSingleCall
  /\ hasKey = TRUE
  /\ McpIdle

NextCliCall ==
  CliCallSettles /\ UNCHANGED <<batchVars, single, mcpVars, sideVars, loadCall,
                                validateCall, cli, cliRun, store>>

SpecCliCall == InitCliCall /\ [][NextCliCall]_vars

\* ------------------------------------------------------------ secure storage
MaxCalls == 6

\* API keys handed to storeApiKey; '' is a string like the others.
ApiKeys == {"", "key-1", "key-2"}

\* What crypto.randomBytes(16) may give.
Ivs == {"iv1", "iv2"}

\* getMachineKey: the SHA-256 of hostname, platform and architecture.
MachineKey == "sha256(host+platform+arch)"

\* encrypt: AES-256-GCM under the machine key and a fresh iv. The ciphertext
\* and the tag are determined by key, iv and text, and are kept as that
\* triple.
Encrypt(text, key, iv) ==
  [encrypted |-> <<"aes", key, iv, text>>, iv |-> iv,
   authTag |-> <<"tag", key, iv, text>>]

\* decrypt: the plain text when the tag verifies under the key and the iv of
\* the record, else 'Failed to decrypt API key - data may be corrupted'.
Decrypt(encryptedData, key) ==
  LET c == encryptedData.encrypted IN
  IF /\ c[2] = key
     /\ c[3] = encryptedData.iv
     /\ encryptedData.authTag = <<"tag", key, encryptedData.iv, c[4]>>
  THEN [threw |-> FALSE, value |-> c[4]]
  ELSE [threw |-> TRUE, value |-> "Failed to decrypt API key"]

\* The config file: absent, or the JSON text of a config object (the version
\* and the two dates are left out).
NoFile == [exists |-> FALSE]
ConfigFile(apiKey) == [exists |-> TRUE, apiKey |-> apiKey]

\* A mutant: the file is written only when there is none yet.
WriteFileIfAbsent(file, config) == IF file.exists THEN file ELSE config

\* fs.writeFile(configFile, JSON.stringify(config, null, 2))
WriteFile(file, config) == config

\* What a call gave back: a value or an Error.
Returned(v) == [threw |-> FALSE, value |-> v]

\* What retrieveApiKey resolves to: a string or null.
Str(s) == [null |-> FALSE, s |-> s]
Null == [null |-> TRUE, s |-> ""]

\* retrieveApiKey: null without a file; else the decrypted apiKey of the
\* parsed file (config.apiKey is an object here, so !config.apiKey is false).
RetrieveApiKey(file) ==
  IF ~file.exists THEN Returned(Null)
  ELSE LET d == Decrypt(file.apiKey, MachineKey) IN
    IF d.threw THEN [threw |-> TRUE, value |-> "Failed to retrieve API key"]
    ELSE Returned(Str(d.value))

\* hasStoredApiKey: fs.pathExists(configFile)
HasStoredApiKey(file) == Returned(file.exists)

\* The store of a fresh installation, and no call made yet.
StoreStarted ==
  [pc |-> "ready", file |-> NoFile, calls |-> 0,
   last |-> [op |-> "none", key |-> ""],
   out |-> [op |-> "none", result |-> Returned(Null)]]

\* storeApiKey(apiKey) runs to its return.
StoreApiKey(apiKey, iv) ==
  /\ store.pc = "ready"
  /\ store.calls < MaxCalls
  /\ store' = [store EXCEPT
       !.file = WriteFile(store.file, ConfigFile(Encrypt(apiKey, MachineKey, iv))),
       !.calls = store.calls + 1,
       !.last = [op |-> "store", key |-> apiKey],
       !.out = [op |-> "store", result |-> Returned(TRUE)]]

\* removeApiKey runs to its return: the file is removed if it exists.
RemoveApiKey ==
  /\ store.pc = "ready"
  /\ store.calls < MaxCalls
  /\ store' = [store EXCEPT
       !.file = NoFile,
       !.calls = store.calls + 1,
       !.last = [op |-> "remove", key |-> ""],
       !.out = [op |-> IF store.file.exists THEN "remove" ELSE "remove-empty",
                result |-> Returned(TRUE)]]

\* retrieveApiKey is called and returns or throws.
RetrieveApiKeyCalled ==
  /\ store.pc = "ready"
  /\ store.calls < MaxCalls
  /\ store' = [store EXCEPT
       !.calls = store.calls + 1,
       !.out = [op |-> "retrieve", result |-> RetrieveApiKey(store.file)]]

\* hasStoredApiKey is called and returns.
HasStoredApiKeyCalled ==
  /\ store.pc = "ready"
  /\ store.calls < MaxCalls
  /\ store' = [store EXCEPT
       !.calls = store.calls + 1,
       !.out = [op |-> "has", result |-> HasStoredApiKey(store.file)]]

InitStore ==
  /\ store = StoreStarted
  /\ cli = Idle
  /\ cliRun = Idle
  /\ cliCall = Idle
  /\ loadCall = Idle
  /\ validateCall = Idle
  /\ costCall = NoCostCall
  /\ now = 1
  /\ startTime = <<>>
  /\ paths = <<>>
  /\ BatchIdle
  /\ single = NoSingleCall
  /\ hasKey = TRUE
  /\ McpIdle

\* Everything but the variable store.
notStore == <<batchVars, single, mcpVars, sideVars, loadCall, validateCall, cli,
              cliRun, cliCall>>

NextStore ==
  \/ (\E k \in ApiKeys, iv \in Ivs : StoreApiKey(k, iv)) /\ UNCHANGED notStore
  \/ RemoveApiKey /\ UNCHANGED notStore
  \/ RetrieveApiKeyCalled /\ UNCHANGED notStore
  \/ HasStoredApiKeyCalled /\ UNCHANGED notStore

SpecStore == InitStore /\ [][NextStore]_vars

\* ------------------------------------------------------------ claims on generateBatch
Running == {k \in 1..N : st[k] = "running"}

WindowOf(k) == (k - 1) \div batchSize

\* The provider and the file system let this call succeed.
Favourable(env, toDisk) == env.sub.t = "resp" /\ (toDisk => env.dirOk)

FailedTasks == {k \in 1..N : st[k] = "settled" /\ ~promise[k].success}

\* C1: when generateBatch returns, results has exactly N entries and
\* results[k] is the outcome of tasks[k], whatever the completion order.
ThmOrderPreserved ==
  pc = "done" =>
    /\ Len(results) = N
    /\ \A k \in 1..N : results[k] = GenerateSingleImage(tasks[k], outcome[k], outDir)

\* C1 witness: a returned batch whose second task finished before its first.
WitOrderPreserved ==
  /\ pc = "done"
  /\ N >= 2
  /\ doneOrder[1] = 2
  /\ results[1].success # results[2].success

\* C2: a failed task is recorded as its own result and never raised out of
\* generateBatch; its window's other tasks are dispatched, and when the batch
\* returns every other task has its own result, decided by its own outcome.
ThmFailureIsolated ==
  /\ pc # "thrown"
  /\ \A k \in FailedTasks :
       /\ \A j \in 1..N : WindowOf(j) = WindowOf(k) => st[j] # "pending"
       /\ pc = "done" =>
            /\ ~results[k].success /\ results[k].error # ""
            /\ results[k].prompt = tasks[k].prompt
            /\ \A j \in (1..N) \ {k} :
                 /\ st[j] = "settled"
                 /\ results[j].success = Favourable(outcome[j], outDir)

\* C2 witness: the first task of a window failed, a task of its window and a
\* task of a later window succeeded.
WitFailureIsolated ==
  /\ pc = "done"
  /\ N >= 3 /\ batchSize = 2
  /\ ~results[1].success
  /\ results[2].success
  /\ results[3].success

\* C3: at most batchSize provider calls are in flight.
ThmBoundedConcurrency == Cardinality(Running) <= batchSize

\* C3 witness: a full window of more than one task is in flight.
WitBoundedConcurrency == batchSize >= 2 /\ Cardinality(Running) = batchSize

\* C4: no task of a later window is started before every task of every
\* earlier window has its result.
ThmWindowBarrier ==
  \A a \in 1..N, b \in 1..N :
    (WindowOf(a) < WindowOf(b) /\ st[b] # "pending") => st[a] = "settled"

\* C4 witness: a task of the second window is in flight after a first window
\* of two tasks.
WitWindowBarrier ==
  /\ batchSize >= 2
  /\ N > batchSize
  /\ st[batchSize + 1] = "running"
  /\ doneOrder = <<2, 1>>

\* C5: onProgress is called exactly once per finished task, with that task's
\* result, for failures as for successes: N calls when the batch returns.
ThmProgressOncePerTask ==
  /\ \A j \in DOMAIN progress :
       /\ progress[j].task \in 1..N
       /\ st[progress[j].task] = "settled"
       /\ progress[j].result = promise[progress[j].task]
  /\ \A k \in 1..N :
       Cardinality({j \in DOMAIN progress : progress[j].task = k})
         = IF useProgress /\ st[k] = "settled" THEN 1 ELSE 0
  /\ (pc = "done" /\ useProgress) => Len(progress) = N

\* C5 witness: a returned batch with a callback, a failed and a successful task.
WitProgressOncePerTask ==
  /\ pc = "done"
  /\ useProgress
  /\ N >= 2
  /\ \E k \in 1..N : ~results[k].success
  /\ \E k \in 1..N : results[k].success

\* C6: the completed count of the successive onProgress calls is 1, 2, ..., N.
CexProgressCountIncreasing ==
  \A j \in DOMAIN progress : progress[j].completed = j

\* C17: with batchSize >= 1 and a provider and downloads that always come
\* back, generateBatch eventually returns, with one result for every task and
\* every task finished.
ThmBatchTerminates ==
  <>(pc = "done" /\ Len(results) = N /\ \A k \in 1..N : st[k] = "settled")

\* C17 witness: a run of MaxTasks tasks in windows of two has returned; one of
\* its tasks failed.
WitBatchTerminates ==
  /\ pc = "done"
  /\ N = MaxTasks
  /\ batchSize = 2
  /\ Len(results) = N
  /\ \E k \in 1..N : ~results[k].success

\* C18 (as claimed): a task whose provider call is never answered still gets
\* a (failure) result, so no task of a run stays running for ever.
CexNoEndlessWait ==
  \A k \in 1..MaxTasks : (k <= N /\ st[k] = "running") ~> (k <= N /\ st[k] = "settled")

\* One step in the life of task k: pending, then running, then settled for
\* good with the result it got.
Lifecycle(k) ==
  /\ st[k] = "pending" => st'[k] \in {"pending", "running"}
  /\ st[k] = "running" => st'[k] \in {"running", "settled"}
  /\ st[k] = "settled" => (st'[k] = "settled" /\ promise'[k] = promise[k])

\* C19: every task goes from pending to running to a terminal result and
\* never back: it is submitted to the provider exactly once (the number of
\* fal.subscribe calls is the number of tasks that left pending), and a
\* terminal result, failed or not, is never changed or retried.
ThmTaskLifecycle ==
  [][/\ \A k \in 1..N : Lifecycle(k)
     /\ calls' = Cardinality({k \in 1..N : st'[k] # "pending"})]_vars

\* C19 witness: a run of two tasks has returned after two provider calls; the
\* first task failed and the second succeeded.
WitTaskLifecycle ==
  /\ pc = "done"
  /\ N = 2
  /\ calls = 2
  /\ ~results[1].success
  /\ results[2].success

\* C20 (as claimed): no two images saved during one generateBatch run are
\* written to the same file path, two tasks of one model that start in the same
\* window at the same timestamp included.
CexPathsUnique ==
  \A a, b \in DOMAIN paths : a # b => paths[a] # paths[b]

\* C16 (as claimed): a run with batchSize below 1 fails at once with a
\* configuration error: it dispatches no task, enters no window and returns
\* no result list.
CexBatchSizeRejected ==
  batchSize < 1 => (calls = 0 /\ pc \notin {"await", "done"})

\* ------------------------------------------------------------ claims on generateSingleImage
\* The response yields no image: extraction throws or finds no URL.
Malformed(r) == ExtractImageUrls(r).threw \/ ExtractImageUrls(r).urls = <<>>

Answered == single.pc = "returned" /\ single.env.sub.t = "resp"

NonEmpty(us) == SelectSeq(us, LAMBDA u : u # "")

ShapeUrls(result, shape) ==
  LET top(f) == IF f.p = "array" /\ ~HasNull(f.items)
                THEN Concat([j \in DOMAIN f.items |-> TopItemUrls(f.items[j])])
                ELSE <<>>
      nested(f) == IF f.p = "array" /\ ~HasNull(f.items)
                   THEN Concat([j \in DOMAIN f.items |-> NestedItemUrls(f.items[j])])
                   ELSE <<>>
  IN NonEmpty(CASE shape = 1 -> top(result.images)
                [] shape = 2 -> IF result.image.p = "obj" THEN <<result.image.url>> ELSE <<>>
                [] shape = 3 -> nested(result.data)
                [] shape = 4 -> nested(result.output))

\* The URLs of the first shape, in priority order, that yields one.
FirstYieldingShape(result) ==
  IF \E sh \in 1..4 : ShapeUrls(result, sh) # <<>>
  THEN ShapeUrls(result, CHOOSE sh \in 1..4 :
         /\ ShapeUrls(result, sh) # <<>>
         /\ \A lo \in 1..(sh - 1) : ShapeUrls(result, lo) = <<>>)
  ELSE <<>>

\* C12 (as claimed): extractImageUrls returns the URLs of the first shape, in
\* priority order, that yields at least one non-empty URL; a higher-priority
\* shape that is present and yields nothing does not hide a lower one.
CexFirstYieldingShape ==
  (Answered /\ ~single.env.sub.resp.isNull
     /\ ~ExtractImageUrls(single.env.sub.resp).threw) =>
    ExtractImageUrls(single.env.sub.resp).urls = FirstYieldingShape(single.env.sub.resp)

\* The provider answered with at least one URL and an output directory was
\* supplied: saveImagesToDisk is called.
SavingCalled ==
  /\ Answered
  /\ single.toDisk
  /\ ~ExtractImageUrls(single.env.sub.resp).threw
  /\ ExtractImageUrls(single.env.sub.resp).urls # <<>>

\* C14 (as claimed): with at least one URL from the provider and an output
\* directory, the result is a success carrying those URLs whichever
\* persistence step fails: directory creation, download or file write.
CexSuccessWhateverSaveFails ==
  SavingCalled =>
    /\ single.result.success
    /\ single.result.images = ExtractImageUrls(single.env.sub.resp).urls

Without(ts, k) == [j \in 1..(Len(ts) - 1) |-> IF j < k THEN ts[j] ELSE ts[j + 1]]

\* The catalog has no entry for the task's model.
Unknown(task, models) == \A j \in DOMAIN models : models[j].id # task.model

\* All but the last element.
Front(ts) == [j \in 1..(Len(ts) - 1) |-> ts[j]]

\* Every price of the catalog is non-negative.
NonNegativeCatalog(models) == \A j \in DOMAIN models : models[j].costPerImage >= 0

\* C21: with a catalog of non-negative prices, the total of a task list whose
\* last task has a non-negative cost is at least the total of the list
\* without that task.
ThmCostMonotonic ==
  (/\ costCall.pc = "returned"
   /\ costCall.tasks # <<>>
   /\ NonNegativeCatalog(costCall.models)
   /\ TaskCost(costCall.tasks[Len(costCall.tasks)], costCall.models) >= 0) =>
    costCall.totalCost >= CalculateCost(Front(costCall.tasks), costCall.models).totalCost

\* C21 witness: the extra task is charged, and the total of the longer list is
\* strictly the greater one.
WitCostMonotonic ==
  /\ costCall.pc = "returned"
  /\ Len(costCall.tasks) = 2
  /\ NonNegativeCatalog(costCall.models)
  /\ Charged(costCall.tasks[1], costCall.models)
  /\ TaskCost(costCall.tasks[2], costCall.models) > 0
  /\ costCall.totalCost > CalculateCost(Front(costCall.tasks), costCall.models).totalCost

\* The same tasks as batch_generate reads them: the number of images each task
\* asks for is in parameters.num_images.
GateTasks(ts) == [j \in DOMAIN ts |-> Task(ts[j].model, j, ts[j].imageCount)]

\* C28 (as claimed): with the loaded catalog, the total calculate_cost returns
\* is the total batch_generate's spending check computes for the same tasks,
\* so both stand on the same side of the spending limit.
CexCostToolMatchesGate ==
  (costCall.pc = "returned" /\ costCall.models = Catalog) =>
    /\ costCall.totalCost = TotalEstimatedCost(GateTasks(costCall.tasks))
    /\ RequiresSpendingConfirmation(costCall.totalCost)
         <=> RequiresSpendingConfirmation(TotalEstimatedCost(GateTasks(costCall.tasks)))

\* C13 (as claimed): a task whose model is not in the catalog is charged a
\* non-zero fallback: it never contributes zero to the total.
CexUnknownModelCharged ==
  costCall.pc = "returned" =>
    \A k \in DOMAIN costCall.tasks :
      Unknown(costCall.tasks[k], costCall.models) =>
        costCall.totalCost > CalculateCost(Without(costCall.tasks, k), costCall.models).totalCost

\* ------------------------------------------------------------ claims on loadModels
\* The .json files that are not a loadable model descriptor.
BadFiles(files) == SelectSeq(ModelFiles(files), LAMBDA f : f.kind # "ok")

\* C22 (as claimed): with one bad config file in a readable directory,
\* loadModels does not fail and still returns every valid model of the
\* directory: the bad file does not empty or block the catalog.
CexOneBadFileSkipped ==
  (/\ loadCall.pc = "returned"
   /\ loadCall.dirOk
   /\ Len(BadFiles(loadCall.files)) = 1) =>
    /\ ~loadCall.result.threw
    /\ \A j \in DOMAIN loadCall.files :
         loadCall.files[j].kind = "ok" =>
           \E h \in DOMAIN loadCall.result.models :
             loadCall.result.models[h] = loadCall.files[j]

\* C23 (as claimed): loadModels fails with an error exactly when the models
\* directory cannot be read.
CexLoadFailsIffUnreadable ==
  loadCall.pc = "returned" => (loadCall.result.threw <=> ~loadCall.dirOk)

\* C24 (as claimed): valid is true exactly when id, name, type and
\* costPerImage are present, costPerImage is a number not below zero (zero
\* included), and every integer or float parameter that has both min and max
\* has min < max; otherwise valid is false and errors is not empty.
CexValidExactly ==
  validateCall.pc = "returned" =>
    LET cfg == validateCall.config
        numeric(q) == q.type \in {"number", "integer", "float"}
        claimed ==
          /\ cfg.id # "" /\ cfg.name /\ cfg.type
          /\ cfg.costPerImage.kind = "number"
          /\ cfg.costPerImage.value >= 0
          /\ \A j \in DOMAIN cfg.parameters :
               (numeric(cfg.parameters[j]) /\ cfg.parameters[j].hasMin
                  /\ cfg.parameters[j].hasMax) =>
                 cfg.parameters[j].min < cfg.parameters[j].max
    IN /\ validateCall.result.valid <=> claimed
       /\ ~validateCall.result.valid => validateCall.result.errors # <<>>

\* ------------------------------------------------------------ claims on the CLI
\* C25 (as claimed): every generation run of the CLI comes after a display of
\* the cost estimate for the settings the run uses and the user's
\* confirmation of it.
CexEstimateBeforeEveryRun ==
  cli.runs > 0 => cli.lastRun.estimated

DistinctKeys ==
  \A a, b \in DOMAIN cliRun.tasks :
    cliRun.tasks[a].model # cliRun.tasks[b].model
      => cliRun.tasks[a].key # cliRun.tasks[b].key

Finished == {k \in DOMAIN cliRun.st : cliRun.st[k] \in {"returned", "failed"}}

\* C29: in the CLI's generateImages the counter completedTasks goes up exactly
\* once for every task whose callback finishes, successful or failed, in every
\* interleaving; the counts printed are 1, 2, 3, ... without gap or repeat;
\* and when the loop has ended every task has finished and the counter equals
\* the number of tasks, so a failed task stops no later window.
ThmCompletedOncePerTask ==
  cliRun.pc # "idle" =>
    /\ cliRun.completedTasks = Cardinality(Finished)
    /\ cliRun.printed = [j \in 1..Cardinality(Finished) |-> j]
    /\ cliRun.pc = "done" =>
         /\ Finished = DOMAIN cliRun.tasks
         /\ cliRun.completedTasks = Len(cliRun.tasks)

\* C29 witness: a finished run of two tasks in two windows; the first task
\* failed, the second returned, and the counts 1 and 2 were printed.
WitCompletedOncePerTask ==
  /\ cliRun.pc = "done"
  /\ cliRun.batchSize = 1
  /\ Len(cliRun.tasks) = 2
  /\ cliRun.st[1] = "failed"
  /\ cliRun.st[2] = "returned"
  /\ cliRun.printed = <<1, 2>>
  /\ cliRun.results = <<2>>

\* C27 (as claimed): for the same provider response, and with every download
\* succeeding, the CLI's generateSingleImage and the core generateSingleImage
\* end alike, both in success or both in failure, and when they succeed they
\* hold the same list of image URLs.
CexSameExtraction ==
  (cliCall.pc = "returned" /\ cliCall.env.dirOk /\ cliCall.env.dl = AllOk) =>
    LET core == GenerateSingleImage(cliCall.task, cliCall.env, FALSE) IN
    /\ cliCall.result.success = core.success
    /\ core.success => cliCall.result.falUrls = core.images

\* ------------------------------------------------------------ claims on the secure storage
\* C30: after any sequence of storeApiKey and removeApiKey calls,
\* retrieveApiKey returns the key of the most recent storeApiKey when no
\* removeApiKey came after it and null otherwise; hasStoredApiKey returns true
\* exactly in the first case; and removeApiKey on an empty store returns true
\* and leaves the store empty.
ThmStoreLaws ==
  store.pc = "ready" =>
    /\ store.out.op = "retrieve" =>
         store.out.result =
           IF store.last.op = "store" THEN Returned(Str(store.last.key))
           ELSE Returned(Null)
    /\ store.out.op = "has" =>
         store.out.result = Returned(store.last.op = "store")
    /\ store.out.op = "remove-empty" =>
         (store.out.result = Returned(TRUE) /\ ~store.file.exists)

\* C30 witness: after a store, a remove and a second store with another key,
\* retrieveApiKey has just returned the second key.
WitStoreLaws ==
  /\ store.pc = "ready"
  /\ store.calls = 4
  /\ store.last = [op |-> "store", key |-> "key-2"]
  /\ store.out.op = "retrieve"
  /\ store.out.result = Returned(Str("key-2"))

\* ------------------------------------------------------------ claims on the MCP spending check
Signalled == resp.kind = "SPENDING_CONFIRMATION_REQUIRED"

\* C7: with confirm_spending the check allows the operation; without it the
\* check signals SPENDING_CONFIRMATION_REQUIRED exactly when the estimated
\* cost is strictly greater than the limit.
ThmSpendingGate ==
  /\ lastGate.seen =>
       /\ lastGate.confirm => ~lastGate.blocked
       /\ ~lastGate.confirm => (lastGate.blocked <=> lastGate.cost > SPENDING_LIMIT)
       /\ (lastGate.blocked /\ resp.kind # "error") => Signalled
  /\ Signalled => (lastGate.seen /\ lastGate.blocked)

\* C7 witness: an unconfirmed request that costs the limit exactly goes ahead.
WitSpendingGate ==
  /\ lastGate.seen
  /\ lastGate.cost = SPENDING_LIMIT
  /\ ~lastGate.confirm
  /\ resp.kind = "pending"
  /\ calls > 0

\* C8: after an unconfirmed request over the limit no provider call has been
\* issued, no file written and no generation is under way: the signal is the
\* whole answer.
ThmNoSpendingUnconfirmed ==
  (lastGate.seen /\ lastGate.cost > SPENDING_LIMIT /\ ~lastGate.confirm) =>
    /\ calls = 0
    /\ written = 0
    /\ pc = "idle"
    /\ single.pc = "idle"
    /\ mcpPc = "idle"
    /\ resp.kind \in {"SPENDING_CONFIRMATION_REQUIRED", "error"}

\* C8 witness: an unconfirmed batch over the limit was answered with the signal.
WitNoSpendingUnconfirmed ==
  /\ Signalled
  /\ lastGate.cost > SPENDING_LIMIT
  /\ ~lastGate.confirm
  /\ calls = 0
  /\ prevGate.seen /\ ~prevGate.blocked

\* C9: two successive checks of the same cost and flag decide alike, and a
\* confirmed request does not exempt the unconfirmed request after it.
ThmGateStateless ==
  (prevGate.seen /\ lastGate.seen) =>
    /\ (prevGate.cost = lastGate.cost /\ prevGate.confirm = lastGate.confirm)
         => prevGate.blocked = lastGate.blocked
    /\ (prevGate.confirm /\ lastGate.cost > SPENDING_LIMIT /\ ~lastGate.confirm)
         => lastGate.blocked

\* C9 witness: a confirmed request over the limit went ahead and the same
\* request without confirmation was then answered with the signal.
WitGateStateless ==
  /\ prevGate.seen /\ lastGate.seen
  /\ prevGate.cost > SPENDING_LIMIT
  /\ prevGate.confirm /\ ~prevGate.blocked
  /\ lastGate.cost = prevGate.cost
  /\ ~lastGate.confirm
  /\ lastGate.blocked /\ Signalled

====
